---- MODULE Spec2Model ----
(***************************************************************************)
(* A model of chess_game.py: the Board (a grid of rows held by reference), *)
(* the pseudo-legal move generator Rules, the one-ply agent SimpleAI and   *)
(* the Game loop that serialises mouse clicks against the agent's turns.   *)
(*                                                                         *)
(* Python objects are modelled with their identity: a Board is the id of   *)
(* its outer list, heap.grids maps that id to the ids of its 8 rows and    *)
(* heap.rows maps a row id to its 8 cells.  A cell is None (<<>>) or a     *)
(* piece <<color, ptype>>.  A move is <<src, dst>> with squares <<r, c>>.  *)
(***************************************************************************)
EXTENDS Integers, Sequences, FiniteSets, TLC

VARIABLES
    heap,                        \* the lists of every live Board
    selected,                    \* Game.selected
    legal_moves_from_selected,   \* Game.legal_moves_from_selected
    current_turn,                \* Game.current_turn
    pc,                          \* position of Game.run inside a frame
    last,                        \* record of the last operation (history)
    n                            \* number of operations performed so far

vars == <<heap, selected, legal_moves_from_selected, current_turn, pc, last, n>>

----------------------------------------------------------------------------
(* Constants of the program *)

ROWS == 8
COLS == 8

None == <<>>

\* promotion=None of move_piece; the empty string is falsy in Python as well
NoPromotion == ""

Colors == {"w", "b"}
Kinds == {"P", "N", "B", "R", "Q", "K"}

MATERIAL_VALUES == [k \in Kinds |->
    CASE k = "P" -> 1 [] k = "N" -> 3 [] k = "B" -> 3
      [] k = "R" -> 5 [] k = "Q" -> 9 [] k = "K" -> 0]

\* MATERIAL_VALUES.get(ptype, 0)
MaterialGet(ptype) == IF ptype \in DOMAIN MATERIAL_VALUES THEN MATERIAL_VALUES[ptype] ELSE 0

RowIdx == 0 .. (ROWS - 1)
ColIdx == 0 .. (COLS - 1)
Squares == RowIdx \X ColIdx

\* the one Board of a Game, and the standard position Board.reset builds
BOARD == 0

BackRank == <<"R", "N", "B", "Q", "K", "B", "N", "R">>

StartGrid == [r \in RowIdx |-> [c \in ColIdx |->
    CASE r = 0 -> <<"b", BackRank[c + 1]>>
      [] r = 1 -> <<"b", "P">>
      [] r = 6 -> <<"w", "P">>
      [] r = 7 -> <<"w", BackRank[c + 1]>>
      [] OTHER -> None]]

\* A Board whose grid is `grid`: the outer list BOARD and 8 distinct rows
HeapOf(grid) == [grids |-> (BOARD :> [r \in RowIdx |-> r]),
                 rows  |-> [i \in RowIdx |-> grid[i]]]

----------------------------------------------------------------------------
(* Board *)

in_bounds(r, c) == 0 <= r /\ r < ROWS /\ 0 <= c /\ c < COLS

get(h, b, r, c) == IF ~in_bounds(r, c) THEN None ELSE h.rows[h.grids[b][r]][c]

set(h, b, r, c, piece) ==
    IF in_bounds(r, c)
    THEN [h EXCEPT !.rows[h.grids[b][r]][c] = piece]
    ELSE h

\* Variants of move_piece with a fault, for comparison with it: one leaves
\* the piece on its origin as well, one promotes a pawn on either end rank,
\* one never promotes.
move_piece_KeepsOrigin(h, b, src, dst, promotion) ==
    LET piece == get(h, b, src[1], src[2])
    IN  IF piece = None THEN h
        ELSE LET ptype == IF piece[2] = "P" /\ dst[1] = (IF piece[1] = "w" THEN 0 ELSE 7)
                          THEN (IF promotion # NoPromotion THEN promotion ELSE "Q")
                          ELSE piece[2]
             IN  set(h, b, dst[1], dst[2], <<piece[1], ptype>>)

move_piece_EitherEndRank(h, b, src, dst, promotion) ==
    LET piece == get(h, b, src[1], src[2])
    IN  IF piece = None THEN h
        ELSE LET ptype == IF piece[2] = "P" /\ dst[1] \in {0, 7}
                          THEN (IF promotion # NoPromotion THEN promotion ELSE "Q")
                          ELSE piece[2]
             IN  set(set(h, b, dst[1], dst[2], <<piece[1], ptype>>), b, src[1], src[2], None)

move_piece_NeverPromotes(h, b, src, dst, promotion) ==
    LET piece == get(h, b, src[1], src[2])
    IN  IF piece = None THEN h
        ELSE set(set(h, b, dst[1], dst[2], piece), b, src[1], src[2], None)

move_piece(h, b, src, dst, promotion) ==
    LET sr == src[1]
        sc == src[2]
        dr == dst[1]
        dc == dst[2]
        piece == get(h, b, sr, sc)
    IN  IF piece = None THEN h
        ELSE LET color == piece[1]
                 ptype == IF piece[2] = "P"
                          THEN IF color = "w" /\ dr = 0
                               THEN (IF promotion # NoPromotion THEN promotion ELSE "Q")
                               ELSE IF color = "b" /\ dr = 7
                               THEN (IF promotion # NoPromotion THEN promotion ELSE "Q")
                               ELSE piece[2]
                          ELSE piece[2]
             IN  set(set(h, b, dr, dc, <<color, ptype>>), b, sr, sc, None)

FreshId(S) == IF S = {} THEN 0 ELSE (CHOOSE m \in S : \A x \in S : x <= m) + 1

\* Board.reset: every row of the outer list is replaced by a new list
\* holding the standard position; a row no Board refers to any more is
\* collected.
reset(h, b) ==
    LET base  == FreshId(DOMAIN h.rows)
        grids == [h.grids EXCEPT ![b] = [r \in RowIdx |-> base + r]]
        rows  == [i \in base .. (base + ROWS - 1) |-> StartGrid[i - base]] @@ h.rows
        live  == {grids[x][r] : x \in DOMAIN grids, r \in RowIdx}
    IN  [grids |-> grids, rows |-> [i \in live |-> rows[i]] @@ <<>>]

\* A variant of clone that copies the outer list only (list(self.grid)):
\* the new Board refers to the rows of the original.
clone_Shallow(h, b) ==
    [heap |-> [grids |-> (FreshId(DOMAIN h.grids) :> h.grids[b]) @@ h.grids,
               rows  |-> h.rows],
     ref  |-> FreshId(DOMAIN h.grids)]

\* Board.clone: deepcopy(self.grid) builds a new outer list and a new list
\* for each of its 8 rows (the rows of a Board are 8 distinct lists: reset
\* builds each one afresh); the cells are immutable values and are shared.
clone(h, b) ==
    LET g     == h.grids[b]
        newG  == FreshId(DOMAIN h.grids)
        base  == FreshId(DOMAIN h.rows)
    IN  [heap |-> [grids |-> (newG :> [r \in RowIdx |-> base + r]) @@ h.grids,
                   rows  |-> [i \in base .. (base + ROWS - 1) |-> h.rows[g[i - base]]] @@ h.rows],
         ref  |-> newG]

\* A Board that is no longer referenced is collected with its rows.
Release(h, b) ==
    LET keepG == DOMAIN h.grids \ {b}
        keepR == {h.grids[x][r] : x \in keepG, r \in RowIdx}
    IN  [grids |-> [x \in keepG |-> h.grids[x]],
         rows  |-> [i \in keepR |-> h.rows[i]]]

\* The loops over the 64 squares and over a list of moves are evaluated by
\* halving the range: the iterations lo .. hi still run in increasing order,
\* each on the result of the one before (the first half is bound as a value
\* before the second half starts, which keeps the evaluation shallow).

\* the contribution of square i (row-major) to material_score
CellScore(h, b, color, i) ==
    LET piece == h.rows[h.grids[b][i \div COLS]][i % COLS]
    IN  IF piece = None THEN 0
        ELSE IF piece[1] = color THEN MaterialGet(piece[2])
        ELSE 0 - MaterialGet(piece[2])

RECURSIVE ScoreRange(_, _, _, _, _)
ScoreRange(h, b, color, lo, hi) ==
    IF lo = hi THEN CellScore(h, b, color, lo)
    ELSE ScoreRange(h, b, color, lo, (lo + hi) \div 2)
         + ScoreRange(h, b, color, (lo + hi) \div 2 + 1, hi)

material_score(h, b, color) == ScoreRange(h, b, color, 0, ROWS * COLS - 1)

----------------------------------------------------------------------------
(* Rules *)

_is_enemy(piece, color) == piece # None /\ piece[1] # color

_is_empty(piece) == piece = None

\* A variant of _pawn_moves that allows the two-square advance from any row
_pawn_moves_DoubleAnywhere(h, b, r, c, piece) ==
    LET color == piece[1]
        dir_forward == IF color = "w" THEN -1 ELSE 1
        nr  == r + dir_forward
        nr2 == nr + dir_forward
        forward ==
            IF in_bounds(nr, c) /\ get(h, b, nr, c) = None
            THEN <<  <<<<r, c>>, <<nr, c>>>>  >>
                 \o (IF in_bounds(nr2, c) /\ get(h, b, nr2, c) = None
                     THEN <<  <<<<r, c>>, <<nr2, c>>>>  >>
                     ELSE <<>>)
            ELSE <<>>
        capture(dc) ==
            IF in_bounds(r + dir_forward, c + dc)
               /\ _is_enemy(get(h, b, r + dir_forward, c + dc), color)
            THEN <<  <<<<r, c>>, <<r + dir_forward, c + dc>>>>  >>
            ELSE <<>>
    IN  forward \o capture(-1) \o capture(1)

_pawn_moves(h, b, r, c, piece) ==
    LET color == piece[1]
        dir_forward == IF color = "w" THEN -1 ELSE 1
        start_row == IF color = "w" THEN 6 ELSE 1
        nr  == r + dir_forward
        nr2 == nr + dir_forward
        forward ==
            IF in_bounds(nr, c) /\ get(h, b, nr, c) = None
            THEN <<  <<<<r, c>>, <<nr, c>>>>  >>
                 \o (IF r = start_row /\ in_bounds(nr2, c) /\ get(h, b, nr2, c) = None
                     THEN <<  <<<<r, c>>, <<nr2, c>>>>  >>
                     ELSE <<>>)
            ELSE <<>>
        capture(dc) ==
            IF in_bounds(r + dir_forward, c + dc)
               /\ _is_enemy(get(h, b, r + dir_forward, c + dc), color)
            THEN <<  <<<<r, c>>, <<r + dir_forward, c + dc>>>>  >>
            ELSE <<>>
    IN  forward \o capture(-1) \o capture(1)

\* A variant of the stepping loop that does not look at the target square
StepMoves_OntoOwn(h, b, r, c, color, deltas) ==
    LET ok(d) == in_bounds(r + d[1], c + d[2])
        kept == SelectSeq(deltas, ok)
    IN  [i \in 1 .. Len(kept) |-> <<<<r, c>>, <<r + kept[i][1], c + kept[i][2]>>>>]

\* the moves of a piece that steps once by each of `deltas`, in their order
StepMoves(h, b, r, c, color, deltas) ==
    LET ok(d) == /\ in_bounds(r + d[1], c + d[2])
                 /\ LET target == get(h, b, r + d[1], c + d[2])
                    IN  target = None \/ _is_enemy(target, color)
        kept == SelectSeq(deltas, ok)
    IN  [i \in 1 .. Len(kept) |-> <<<<r, c>>, <<r + kept[i][1], c + kept[i][2]>>>>]

KnightDeltas == << <<-2, -1>>, <<-2, 1>>, <<2, -1>>, <<2, 1>>,
                   <<-1, -2>>, <<-1, 2>>, <<1, -2>>, <<1, 2>> >>

_knight_moves(h, b, r, c, piece) == StepMoves(h, b, r, c, piece[1], KnightDeltas)

RECURSIVE Ray(_, _, _, _, _, _, _, _, _)
Ray(h, b, r, c, color, dr, dc, nr, nc) ==
    IF ~in_bounds(nr, nc) THEN <<>>
    ELSE LET target == get(h, b, nr, nc)
         IN  IF target = None
             THEN << <<<<r, c>>, <<nr, nc>>>> >> \o Ray(h, b, r, c, color, dr, dc, nr + dr, nc + dc)
             ELSE IF _is_enemy(target, color)
                  THEN << <<<<r, c>>, <<nr, nc>>>> >>
                  ELSE <<>>

RECURSIVE SlideFrom(_, _, _, _, _, _, _)
SlideFrom(h, b, r, c, color, directions, i) ==
    IF i > Len(directions) THEN <<>>
    ELSE Ray(h, b, r, c, color, directions[i][1], directions[i][2],
             r + directions[i][1], c + directions[i][2])
         \o SlideFrom(h, b, r, c, color, directions, i + 1)

\* A variant of _sliding_moves that leaves the loop after the first direction
_sliding_moves_FirstDirection(h, b, r, c, piece, directions) ==
    Ray(h, b, r, c, piece[1], directions[1][1], directions[1][2],
        r + directions[1][1], c + directions[1][2])

_sliding_moves(h, b, r, c, piece, directions) == SlideFrom(h, b, r, c, piece[1], directions, 1)

KingDeltas == << <<-1, -1>>, <<-1, 0>>, <<-1, 1>>, <<0, -1>>,
                 <<0, 1>>, <<1, -1>>, <<1, 0>>, <<1, 1>> >>

_king_moves(h, b, r, c, piece) == StepMoves(h, b, r, c, piece[1], KingDeltas)

BishopDirections == << <<-1, -1>>, <<-1, 1>>, <<1, -1>>, <<1, 1>> >>
RookDirections   == << <<-1, 0>>, <<1, 0>>, <<0, -1>>, <<0, 1>> >>
QueenDirections  == BishopDirections \o RookDirections

PieceMoves(h, b, r, c, piece) ==
    CASE piece[2] = "P" -> _pawn_moves(h, b, r, c, piece)
      [] piece[2] = "N" -> _knight_moves(h, b, r, c, piece)
      [] piece[2] = "B" -> _sliding_moves(h, b, r, c, piece, BishopDirections)
      [] piece[2] = "R" -> _sliding_moves(h, b, r, c, piece, RookDirections)
      [] piece[2] = "Q" -> _sliding_moves(h, b, r, c, piece, QueenDirections)
      [] piece[2] = "K" -> _king_moves(h, b, r, c, piece)
      [] OTHER -> <<>>

\* the moves generate_legal_moves adds for square i (row-major)
SquareMoves(h, b, turn_color, i) ==
    LET r == i \div COLS
        c == i % COLS
        piece == get(h, b, r, c)
    IN  IF piece # None /\ piece[1] = turn_color
        THEN PieceMoves(h, b, r, c, piece)
        ELSE <<>>

RECURSIVE ScanRange(_, _, _, _, _)
ScanRange(h, b, turn_color, lo, hi) ==
    IF lo = hi THEN SquareMoves(h, b, turn_color, lo)
    ELSE ScanRange(h, b, turn_color, lo, (lo + hi) \div 2)
         \o ScanRange(h, b, turn_color, (lo + hi) \div 2 + 1, hi)

generate_legal_moves(h, b, turn_color) == ScanRange(h, b, turn_color, 0, ROWS * COLS - 1)

----------------------------------------------------------------------------
(* SimpleAI *)

\* the grid a Board shows: its 8 rows, each with its 8 cells
View(h, b) == [r \in RowIdx |-> h.rows[h.grids[b][r]]]

\* Scores are kept times ten, so that eval_score = material + 0.1 * bonus is
\* the integer 10 * material + bonus.  The bonus is one of 0, 1, 3, 5, 9, so
\* the floating-point sums compare (< and ==) exactly as these integers do.
\* MinusInf stands for -math.inf: it is below every score of an 8x8 board.
MinusInf == 0 - (10 * 9 * ROWS * COLS + 1)

\* one iteration of the scoring loop on st = [heap, best_score, best_moves]
EvalStep(st, b, color, move) ==
    LET h    == st.heap
        src  == move[1]
        dst  == move[2]
        captured == get(h, b, dst[1], dst[2])
        capture_bonus == IF captured # None THEN MaterialGet(captured[2]) ELSE 0
        cl   == clone(h, b)
        sim  == cl.ref
        h2   == move_piece(cl.heap, sim, src, dst, NoPromotion)
        eval_score == 10 * material_score(h2, sim, color) + capture_bonus
        h3   == Release(h2, sim)
    IN  IF eval_score > st.best_score
        THEN [heap |-> h3, best_score |-> eval_score, best_moves |-> <<move>>]
        ELSE IF eval_score = st.best_score
        THEN [heap |-> h3, best_score |-> st.best_score,
              best_moves |-> Append(st.best_moves, move)]
        ELSE [heap |-> h3, best_score |-> st.best_score, best_moves |-> st.best_moves]

RECURSIVE EvalLoop(_, _, _, _, _, _)
EvalLoop(st, b, color, moves, lo, hi) ==
    IF lo = hi THEN EvalStep(st, b, color, moves[lo])
    ELSE CHOOSE out \in {EvalLoop(mid, b, color, moves, (lo + hi) \div 2 + 1, hi) :
                         mid \in {EvalLoop(st, b, color, moves, lo, (lo + hi) \div 2)}} : TRUE

\* A variant of the capture-preference step that keeps only a strictly
\* better capture (a capture worth as much as the best so far is dropped)
CaptureStep_StrictOnly(st, h, b, mv) ==
    LET cap == get(h, b, mv[2][1], mv[2][2])
        val == IF cap # None THEN MaterialGet(cap[2]) ELSE 0
    IN  IF cap # None /\ val > st.cap_best_val
        THEN [capture_best |-> <<mv>>, cap_best_val |-> val]
        ELSE st

\* one iteration of the capture-preference loop on st = [capture_best, cap_best_val]
CaptureStep(st, h, b, mv) ==
    LET cap == get(h, b, mv[2][1], mv[2][2])
        val == IF cap # None THEN MaterialGet(cap[2]) ELSE 0
    IN  IF cap # None /\ val > st.cap_best_val
        THEN [capture_best |-> <<mv>>, cap_best_val |-> val]
        ELSE IF cap # None /\ val = st.cap_best_val
        THEN [capture_best |-> Append(st.capture_best, mv), cap_best_val |-> st.cap_best_val]
        ELSE st

RECURSIVE CaptureLoop(_, _, _, _, _, _)
CaptureLoop(st, h, b, best_moves, lo, hi) ==
    IF lo = hi THEN CaptureStep(st, h, b, best_moves[lo])
    ELSE CHOOSE out \in {CaptureLoop(mid, h, b, best_moves, (lo + hi) \div 2 + 1, hi) :
                         mid \in {CaptureLoop(st, h, b, best_moves, lo, (lo + hi) \div 2)}} : TRUE

\* A variant of choose_move that searches the moves of the other side
choose_move_OtherSide(h, b, color) ==
    LET moves == generate_legal_moves(h, b, IF color = "w" THEN "b" ELSE "w")
    IN  IF moves = <<>> THEN [heap |-> h, pool |-> <<>>]
        ELSE LET ev == EvalLoop([heap |-> h, best_score |-> MinusInf, best_moves |-> <<>>],
                                b, color, moves, 1, Len(moves))
                 cb == CaptureLoop([capture_best |-> <<>>, cap_best_val |-> 0],
                                   ev.heap, b, ev.best_moves, 1, Len(ev.best_moves))
             IN  [heap |-> ev.heap,
                  pool |-> IF cb.capture_best # <<>> THEN cb.capture_best ELSE ev.best_moves]

\* choose_move up to its random.choice: the heap it leaves and the list the
\* choice is drawn from (empty when it returns None).
choose_move(h, b, color) ==
    LET moves == generate_legal_moves(h, b, color)
    IN  IF moves = <<>> THEN [heap |-> h, pool |-> <<>>]
        ELSE LET ev == EvalLoop([heap |-> h, best_score |-> MinusInf, best_moves |-> <<>>],
                                b, color, moves, 1, Len(moves))
                 cb == CaptureLoop([capture_best |-> <<>>, cap_best_val |-> 0],
                                   ev.heap, b, ev.best_moves, 1, Len(ev.best_moves))
             IN  [heap |-> ev.heap,
                  pool |-> IF cb.capture_best # <<>> THEN cb.capture_best ELSE ev.best_moves]

----------------------------------------------------------------------------
(* Boards the program reaches from the standard position.  Moves are only  *)
(* pseudo-legal (a king can be captured and play goes on), so any sparse   *)
(* position whose pawns stand on ranks 1..6 is reached by captures.        *)

Place(pieces) == [r \in RowIdx |-> [c \in ColIdx |->
    IF \E p \in pieces : p[1] = r /\ p[2] = c
    THEN LET p == CHOOSE q \in pieces : q[1] = r /\ q[2] = c IN <<p[3], p[4]>>
    ELSE None]]

LoneRook == Place({<<3, 3, "w", "R">>})

LoneKnight == Place({<<0, 0, "b", "N">>})

PromotionRace == Place({
    <<1, 1, "w", "P">>, <<7, 4, "w", "K">>, <<7, 7, "w", "N">>, <<7, 5, "w", "R">>,
    <<0, 0, "b", "R">>, <<0, 2, "b", "B">>, <<0, 4, "b", "K">>, <<6, 6, "b", "P">>})

KingEnPrise == Place({
    <<4, 4, "w", "Q">>, <<7, 4, "w", "K">>,
    <<4, 6, "b", "K">>, <<1, 0, "b", "P">>})

KnightFork == Place({
    <<4, 4, "w", "N">>, <<6, 0, "w", "P">>, <<6, 2, "w", "P">>, <<6, 3, "w", "P">>,
    <<6, 7, "w", "P">>, <<7, 4, "w", "K">>,
    <<2, 3, "b", "R">>, <<2, 5, "b", "R">>, <<5, 0, "b", "N">>, <<4, 7, "b", "P">>,
    <<3, 3, "b", "P">>, <<4, 2, "b", "P">>, <<0, 4, "b", "K">>})

OneMove == Place({<<3, 0, "w", "P">>, <<0, 7, "b", "K">>})

Blocked == Place({<<3, 0, "w", "P">>, <<2, 0, "b", "P">>, <<0, 7, "b", "K">>})

Diagonals == Place({
    <<5, 2, "w", "B">>, <<7, 3, "w", "Q">>, <<7, 4, "w", "K">>, <<6, 1, "w", "P">>,
    <<3, 4, "b", "Q">>, <<1, 4, "b", "P">>, <<0, 4, "b", "K">>, <<2, 5, "b", "B">>})

QuietPromotion == Place({
    <<1, 6, "w", "P">>, <<3, 3, "w", "N">>, <<7, 4, "w", "K">>,
    <<1, 2, "b", "R">>, <<0, 0, "b", "K">>})

\* the same position seen from the other side: ranks flipped, colours swapped
Mirror(G) == [r \in RowIdx |-> [c \in ColIdx |->
    IF G[ROWS - 1 - r][c] = None THEN None
    ELSE <<(IF G[ROWS - 1 - r][c][1] = "w" THEN "b" ELSE "w"), G[ROWS - 1 - r][c][2]>>]]

SeedGrids == <<StartGrid, LoneRook, LoneKnight, PromotionRace, KingEnPrise,
               KnightFork, OneMove, Blocked, Diagonals>>

AgentSeedGrids == <<LoneRook, LoneKnight, PromotionRace, KingEnPrise, KnightFork,
                    OneMove, Blocked, Diagonals, QuietPromotion,
                    Mirror(PromotionRace), Mirror(KingEnPrise), Mirror(Blocked),
                    Mirror(QuietPromotion)>>

----------------------------------------------------------------------------
(* The rules used on one board: generate_legal_moves is called for a side  *)
(* and its result recorded, or one of the moves it yields is applied with  *)
(* a promotion kind (any kind but Pawn, or none).                          *)

MaxMoves == 1

PlayPromotions == {NoPromotion} \cup (Kinds \ {"P"})

NoMove == <<>>

GameIdle ==
    /\ selected = None
    /\ legal_moves_from_selected = <<>>
    /\ current_turn = "w"
    /\ pc = "api"

GameUnchanged == UNCHANGED <<selected, legal_moves_from_selected, current_turn, pc>>

\* the number of pieces of each colour on board b
PieceCount(h, b) ==
    [color \in Colors |->
        Cardinality({sq \in Squares : get(h, b, sq[1], sq[2]) # None
                                      /\ get(h, b, sq[1], sq[2])[1] = color})]

\* last.moves is what generate_legal_moves returned for last.color on the
\* board as it still is (Generate leaves the heap alone); after ApplyMove,
\* last.move is the move applied, last.piece the piece that stood on its
\* origin and last.counts the piece counts before it
InitMoves ==
    /\ \E s \in 1 .. Len(SeedGrids) : heap = HeapOf(SeedGrids[s])
    /\ GameIdle
    /\ last = [op |-> "init", color |-> "w", moves |-> <<>>, move |-> NoMove,
               piece |-> None, counts |-> PieceCount(heap, BOARD)]
    /\ n = 0

Generate(color) ==
    /\ last' = [op |-> "generate", color |-> color,
                moves |-> generate_legal_moves(heap, BOARD, color), move |-> NoMove,
                piece |-> None, counts |-> PieceCount(heap, BOARD)]
    /\ UNCHANGED <<heap, n>>
    /\ GameUnchanged

ApplyMove(color, promotion) ==
    /\ n < MaxMoves
    /\ \E moves \in {generate_legal_moves(heap, BOARD, color)},
          counts \in {PieceCount(heap, BOARD)} :
         \E i \in 1 .. Len(moves) :
             /\ heap' = move_piece(heap, BOARD, moves[i][1], moves[i][2], promotion)
             /\ last' = [op |-> "apply", color |-> color, moves |-> <<>>, move |-> moves[i],
                         piece |-> get(heap, BOARD, moves[i][1][1], moves[i][1][2]),
                         counts |-> counts]
    /\ n' = n + 1
    /\ GameUnchanged

NextMoves ==
    \/ \E color \in Colors : Generate(color)
    \/ \E color \in Colors, promotion \in PlayPromotions : ApplyMove(color, promotion)

SpecMoves == InitMoves /\ [][NextMoves]_vars

----------------------------------------------------------------------------
(* The agent used on one board by a caller: SimpleAI(rules, color) is     *)
(* asked for a move with choose_move, for either colour, and the caller    *)
(* may apply the move it returned with move_piece (no promotion kind).     *)
(* The move random.choice returns is any element of the list it is given.  *)

MaxPlies == 1

\* After ChooseMove, last.before is the grid choose_move was given (the
\* board as it still is), last.moves what generate_legal_moves yields on
\* it, last.pool the list random.choice drew from and last.move the move
\* returned (NoMove for None).
InitAgent ==
    /\ \E s \in 1 .. Len(AgentSeedGrids) : heap = HeapOf(AgentSeedGrids[s])
    /\ GameIdle
    /\ last = [op |-> "init", color |-> "w", before |-> View(heap, BOARD),
               moves |-> <<>>, pool |-> <<>>, move |-> NoMove]
    /\ n = 0

\* SimpleAI(rules, color).choose_move(board)
ChooseMove(color) ==
    /\ \E ch \in {choose_move(heap, BOARD, color)} :
       \E rec \in {[op |-> "choose", color |-> color, before |-> View(heap, BOARD),
                    moves |-> generate_legal_moves(heap, BOARD, color),
                    pool |-> ch.pool, move |-> NoMove]} :
           /\ heap' = ch.heap
           /\ IF ch.pool = <<>>
              THEN last' = rec
              ELSE \E i \in 1 .. Len(ch.pool) : last' = [rec EXCEPT !.move = ch.pool[i]]
    /\ UNCHANGED n
    /\ GameUnchanged

\* board.move_piece(mv[0], mv[1]) with the move choose_move returned
PlayChosen ==
    /\ n < MaxPlies
    /\ last.op = "choose"
    /\ last.move # NoMove
    /\ heap' = move_piece(heap, BOARD, last.move[1], last.move[2], NoPromotion)
    /\ last' = [last EXCEPT !.op = "play"]
    /\ n' = n + 1
    /\ GameUnchanged

NextAgent ==
    \/ \E color \in Colors : ChooseMove(color)
    \/ PlayChosen

SpecAgent == InitAgent /\ [][NextAgent]_vars

----------------------------------------------------------------------------
(* move_piece called once on a board with any origin, any destination up   *)
(* to MaxReach squares away in rank and file, and any promotion argument. *)

MaxReach == 1

ApplySeedGrids == <<StartGrid, PromotionRace, Mirror(PromotionRace), KnightFork>>

Promotions == {NoPromotion} \cup Kinds

Near(src, dst) ==
    /\ dst # src
    /\ dst[1] - src[1] \in (0 - MaxReach) .. MaxReach
    /\ dst[2] - src[2] \in (0 - MaxReach) .. MaxReach

\* last.before is the grid before the call, last.src, last.dst and
\* last.promotion its arguments
InitApply ==
    /\ \E s \in 1 .. Len(ApplySeedGrids) : heap = HeapOf(ApplySeedGrids[s])
    /\ GameIdle
    /\ last = [op |-> "init", src |-> <<0, 0>>, dst |-> <<0, 0>>,
               promotion |-> NoPromotion, before |-> View(heap, BOARD)]
    /\ n = 0

MovePiece(src, dst, promotion) ==
    /\ n = 0
    /\ Near(src, dst)
    /\ heap' = move_piece(heap, BOARD, src, dst, promotion)
    /\ last' = [op |-> "move", src |-> src, dst |-> dst, promotion |-> promotion,
                before |-> View(heap, BOARD)]
    /\ n' = n + 1
    /\ GameUnchanged

NextApply ==
    /\ n = 0
    /\ \E src \in Squares, dst \in Squares, promotion \in Promotions :
          MovePiece(src, dst, promotion)

SpecApply == InitApply /\ [][NextApply]_vars

----------------------------------------------------------------------------
(* A board and its clone: a caller clones the board, then mutates either   *)
(* one with set and move_piece on a few squares or with reset, and queries *)
(* the rules and the agent on either one.                                  *)

MaxOps == 2

CloneSeedGrids == <<Blocked, OneMove>>

ProbeSquares == {<<3, 0>>, <<2, 0>>}

OffBoard == {<<ROWS, 0>>}

ProbePieces == {None, <<"w", "R">>}

Views(h) == [b \in DOMAIN h.grids |-> View(h, b)]

\* last.target is the Board the call was made on, last.before the grid of
\* every Board before the call
InitClone ==
    /\ \E s \in 1 .. Len(CloneSeedGrids) : heap = HeapOf(CloneSeedGrids[s])
    /\ GameIdle
    /\ last = [op |-> "init", target |-> BOARD, before |-> Views(heap)]
    /\ n = 0

CloneBoard ==
    /\ DOMAIN heap.grids = {BOARD}
    /\ \E cl \in {clone(heap, BOARD)} :
         /\ heap' = cl.heap
         /\ last' = [op |-> "clone", target |-> cl.ref, before |-> Views(heap)]
    /\ UNCHANGED n
    /\ GameUnchanged

SetCell(b, sq, piece) ==
    /\ n < MaxOps
    /\ heap' = set(heap, b, sq[1], sq[2], piece)
    /\ last' = [op |-> "set", target |-> b, before |-> Views(heap)]
    /\ n' = n + 1
    /\ GameUnchanged

MoveOn(b, src, dst) ==
    /\ n < MaxOps
    /\ src # dst
    /\ heap' = move_piece(heap, b, src, dst, NoPromotion)
    /\ last' = [op |-> "move", target |-> b, before |-> Views(heap)]
    /\ n' = n + 1
    /\ GameUnchanged

ResetOn(b) ==
    /\ n < MaxOps
    /\ heap' = reset(heap, b)
    /\ last' = [op |-> "reset", target |-> b, before |-> Views(heap)]
    /\ n' = n + 1
    /\ GameUnchanged

GenerateOn(b, color) ==
    /\ Len(generate_legal_moves(heap, b, color)) >= 0
    /\ last' = [op |-> "generate", target |-> b, before |-> Views(heap)]
    /\ UNCHANGED <<heap, n>>
    /\ GameUnchanged

ChooseOn(b, color) ==
    /\ heap' = choose_move(heap, b, color).heap
    /\ last' = [op |-> "choose", target |-> b, before |-> Views(heap)]
    /\ UNCHANGED n
    /\ GameUnchanged

NextClone ==
    \/ CloneBoard
    \/ \E b \in DOMAIN heap.grids, sq \in ProbeSquares \cup OffBoard, piece \in ProbePieces :
          SetCell(b, sq, piece)
    \/ \E b \in DOMAIN heap.grids, src \in ProbeSquares, dst \in ProbeSquares :
          MoveOn(b, src, dst)
    \/ \E b \in DOMAIN heap.grids : ResetOn(b)
    \/ \E b \in DOMAIN heap.grids, color \in Colors : GenerateOn(b, color)
    \/ \E b \in DOMAIN heap.grids, color \in Colors : ChooseOn(b, color)

SpecClone == InitClone /\ [][NextClone]_vars

----------------------------------------------------------------------------
(* The Game loop: Game.run, one frame after another.  A frame lets the     *)
(* agent move if it is its turn, then handles the events that are queued   *)
(* (left clicks and QUIT, any number, in any order), then draws.  pc is    *)
(* "frame" at the top of the loop, "events" inside the event loop,         *)
(* "quitting" inside it once a QUIT has set running to False, and "exit"   *)
(* after the loop.  n counts the turns that have passed.                   *)

WIDTH == 640

SQUARE_SIZE == WIDTH \div COLS

\* Game(ai_color='b'): the human plays White
AI_COLOR == "b"

MaxTurns == 3

\* Mouse positions <<x, y>> of the clicks: on files d and e (near the left
\* edge, in the middle and on the last pixel of a square), on every rank
ClickXs == {3 * SQUARE_SIZE + 1, 4 * SQUARE_SIZE + SQUARE_SIZE \div 2, 5 * SQUARE_SIZE - 1}

ClickYs == {r * SQUARE_SIZE + SQUARE_SIZE \div 2 : r \in RowIdx}

ClickPositions == ClickXs \X ClickYs

coord_from_mouse(pos) == <<pos[2] \div SQUARE_SIZE, pos[1] \div SQUARE_SIZE>>

\* the fields of the Game that the loop reads and writes
ThisGame == [selected |-> selected,
             legal_moves_from_selected |-> legal_moves_from_selected,
             current_turn |-> current_turn]

is_ai_turn(g) == g.current_turn = AI_COLOR

\* A variant of _post_move that switches the turn but keeps the selection
_post_move_KeepsSelection(g) ==
    [g EXCEPT !.current_turn = IF g.current_turn = "w" THEN "b" ELSE "w"]

_post_move(g) ==
    [selected |-> None,
     legal_moves_from_selected |-> <<>>,
     current_turn |-> IF g.current_turn = "w" THEN "b" ELSE "w"]

\* [mv for mv in generate_legal_moves(board, current_turn) if mv[0] == sq]
MovesFrom(h, g, sq) ==
    LET from(mv) == mv[1] = sq
    IN  SelectSeq(generate_legal_moves(h, BOARD, g.current_turn), from)

Select(h, g, sq) ==
    [heap |-> h,
     game |-> [g EXCEPT !.selected = sq,
                        !.legal_moves_from_selected = MovesFrom(h, g, sq)]]

\* handle_click: the heap and the Game fields it leaves
handle_click(h, g, pos) ==
    LET rc    == coord_from_mouse(pos)
        piece == get(h, BOARD, rc[1], rc[2])
        own   == piece # None /\ piece[1] = g.current_turn
        to(mv) == mv[2] = rc
        hits  == SelectSeq(g.legal_moves_from_selected, to)
    IN  IF g.selected = None
        THEN IF own THEN Select(h, g, rc) ELSE [heap |-> h, game |-> g]
        ELSE IF own THEN Select(h, g, rc)
        ELSE IF hits # <<>>
        THEN [heap |-> move_piece(h, BOARD, hits[1][1], hits[1][2], NoPromotion),
              game |-> _post_move(g)]
        ELSE [heap |-> h,
              game |-> [g EXCEPT !.selected = None, !.legal_moves_from_selected = <<>>]]

\* ai_move_if_needed: every outcome it can have (one for each move that
\* random.choice can return)
ai_move_if_needed(h, g) ==
    IF ~is_ai_turn(g) THEN {[heap |-> h, game |-> g]}
    ELSE LET ch == choose_move(h, BOARD, AI_COLOR)
         IN  IF ch.pool = <<>>
             THEN {[heap |-> ch.heap, game |-> _post_move(g)]}
             ELSE {[heap |-> move_piece(ch.heap, BOARD, ch.pool[i][1], ch.pool[i][2],
                                        NoPromotion),
                    game |-> _post_move(g)] : i \in 1 .. Len(ch.pool)}

\* what the step found on entry
Seen(op) == [op |-> op, turn |-> current_turn, before |-> View(heap, BOARD),
             selected |-> selected, listed |-> legal_moves_from_selected]

Becomes(out) ==
    /\ heap' = out.heap
    /\ selected' = out.game.selected
    /\ legal_moves_from_selected' = out.game.legal_moves_from_selected
    /\ current_turn' = out.game.current_turn
    /\ n' = IF out.game.current_turn # current_turn THEN n + 1 ELSE n

Init ==
    /\ heap = HeapOf(StartGrid)
    /\ selected = None
    /\ legal_moves_from_selected = <<>>
    /\ current_turn = "w"
    /\ pc = "frame"
    /\ last = [op |-> "init", turn |-> "w", before |-> StartGrid,
               selected |-> None, listed |-> <<>>]
    /\ n = 0

\* clock.tick, then the agent's move if it is its turn
Frame ==
    /\ pc = "frame"
    /\ n < MaxTurns
    /\ \E out \in (IF is_ai_turn(ThisGame)
                   THEN ai_move_if_needed(heap, ThisGame)
                   ELSE {[heap |-> heap, game |-> ThisGame]}) : Becomes(out)
    /\ pc' = "events"
    /\ last' = Seen("frame")

\* a MOUSEBUTTONDOWN event of button 1
Click(pos) ==
    /\ pc \in {"events", "quitting"}
    /\ n < MaxTurns
    /\ \E out \in {IF ~is_ai_turn(ThisGame)
                   THEN handle_click(heap, ThisGame, pos)
                   ELSE [heap |-> heap, game |-> ThisGame]} : Becomes(out)
    /\ last' = Seen("click")
    /\ UNCHANGED pc

\* a QUIT event
Quit ==
    /\ pc \in {"events", "quitting"}
    /\ pc' = "quitting"
    /\ last' = Seen("quit")
    /\ UNCHANGED <<heap, selected, legal_moves_from_selected, current_turn, n>>

\* the event queue is empty: draw, and test `running`
Draw ==
    /\ pc \in {"events", "quitting"}
    /\ pc' = IF pc = "events" THEN "frame" ELSE "exit"
    /\ last' = Seen("draw")
    /\ UNCHANGED <<heap, selected, legal_moves_from_selected, current_turn, n>>

Next ==
    \/ Frame
    \/ \E pos \in ClickPositions : Click(pos)
    \/ Quit
    \/ Draw

Spec == Init /\ [][Next]_vars

----------------------------------------------------------------------------
(* What the claims say, stated over a grid by itself (no heap, no code).   *)

At(G, r, c) == IF r \in RowIdx /\ c \in ColIdx THEN G[r][c] ELSE None

Other(color) == IF color = "w" THEN "b" ELSE "w"

Range(seq) == {seq[i] : i \in 1 .. Len(seq)}

Dests(moves, sq) == {moves[i][2] : i \in {j \in 1 .. Len(moves) : moves[j][1] = sq}}

CountFrom(moves, sq) == Cardinality({j \in 1 .. Len(moves) : moves[j][1] = sq})

OpenOrEnemy(G, sq, color) == G[sq[1]][sq[2]] = None \/ G[sq[1]][sq[2]][1] # color

PiecesOf(G, color) == {sq \in Squares : G[sq[1]][sq[2]] # None /\ G[sq[1]][sq[2]][1] = color}

KindAt(G, sq) == G[sq[1]][sq[2]][2]

\* the grid of the one board
Board == View(heap, BOARD)

Generated == last.op = "generate"

PawnTargets(G, r, c, color) ==
    LET d == IF color = "w" THEN -1 ELSE 1
        start == IF color = "w" THEN 6 ELSE 1
    IN  {sq \in Squares :
           \/ sq = <<r + d, c>> /\ G[sq[1]][sq[2]] = None
           \/ /\ sq = <<r + 2 * d, c>>
              /\ r = start
              /\ At(G, r + d, c) = None
              /\ G[sq[1]][sq[2]] = None
           \/ /\ sq[1] = r + d
              /\ sq[2] \in {c - 1, c + 1}
              /\ G[sq[1]][sq[2]] # None
              /\ G[sq[1]][sq[2]][1] # color}

\* C5: the moves generateMoves emits for a pawn are exactly the one-step
\* move onto an empty square, the two-step move from the starting rank over
\* two empty squares, and the diagonal steps onto enemy pieces.
C5_PawnMoves ==
    Generated =>
        \A sq \in PiecesOf(Board, last.color) :
            KindAt(Board, sq) = "P" =>
                /\ Dests(last.moves, sq) = PawnTargets(Board, sq[1], sq[2], last.color)
                /\ CountFrom(last.moves, sq) = Cardinality(Dests(last.moves, sq))

\* a start-rank pawn whose one-step square is blocked while its two-step
\* square is free, and none of its moves was generated
C5_Witness ==
    /\ Generated
    /\ \E sq \in PiecesOf(Board, last.color) :
         /\ KindAt(Board, sq) = "P"
         /\ sq[1] = (IF last.color = "w" THEN 6 ELSE 1)
         /\ LET d == IF last.color = "w" THEN -1 ELSE 1
            IN  /\ At(Board, sq[1] + d, sq[2]) # None
                /\ At(Board, sq[1] + 2 * d, sq[2]) = None
         /\ CountFrom(last.moves, sq) = 0

SlideDirs(kind) ==
    LET diag == {<<-1, -1>>, <<-1, 1>>, <<1, -1>>, <<1, 1>>}
        orth == {<<-1, 0>>, <<1, 0>>, <<0, -1>>, <<0, 1>>}
    IN  CASE kind = "B" -> diag [] kind = "R" -> orth [] kind = "Q" -> diag \cup orth

SlideTargets(G, r, c, color, kind) ==
    {sq \in Squares :
        \E d \in SlideDirs(kind), k \in 1 .. 7 :
            /\ sq = <<r + k * d[1], c + k * d[2]>>
            /\ \A j \in 1 .. (k - 1) : G[r + j * d[1]][c + j * d[2]] = None
            /\ OpenOrEnemy(G, sq, color)}

AllPieces(G) == {sq \in Squares : G[sq[1]][sq[2]] # None}

\* C6: a Bishop, Rook or Queen reaches exactly the squares along its
\* directions with every square in between empty and the destination empty
\* or enemy; a lone Rook has the 14 squares of its rank and file.
C6_SlidingMoves ==
    Generated =>
        /\ \A sq \in PiecesOf(Board, last.color) :
              KindAt(Board, sq) \in {"B", "R", "Q"} =>
                /\ Dests(last.moves, sq)
                     = SlideTargets(Board, sq[1], sq[2], last.color, KindAt(Board, sq))
                /\ CountFrom(last.moves, sq) = Cardinality(Dests(last.moves, sq))
        /\ \A sq \in PiecesOf(Board, last.color) :
              (AllPieces(Board) = {sq} /\ KindAt(Board, sq) = "R") =>
                /\ Len(last.moves) = 14
                /\ Dests(last.moves, sq)
                     = {t \in Squares : t # sq /\ (t[1] = sq[1] \/ t[2] = sq[2])}

\* a slider with an enemy piece on one ray (captured, nothing beyond it) and
\* an own piece on another ray
C6_Witness ==
    /\ Generated
    /\ \E sq \in PiecesOf(Board, last.color) :
         /\ KindAt(Board, sq) \in {"B", "R", "Q"}
         /\ \E d \in SlideDirs(KindAt(Board, sq)), k \in 1 .. 6 :
              /\ <<sq[1] + (k + 1) * d[1], sq[2] + (k + 1) * d[2]>> \in Squares
              /\ <<sq[1] + k * d[1], sq[2] + k * d[2]>> \in Dests(last.moves, sq)
              /\ At(Board, sq[1] + k * d[1], sq[2] + k * d[2]) # None
              /\ At(Board, sq[1] + (k + 1) * d[1], sq[2] + (k + 1) * d[2]) = None
         /\ \E d \in SlideDirs(KindAt(Board, sq)), k \in 1 .. 7 :
              /\ <<sq[1] + k * d[1], sq[2] + k * d[2]>> \in PiecesOf(Board, last.color)
              /\ \A j \in 1 .. (k - 1) : At(Board, sq[1] + j * d[1], sq[2] + j * d[2]) = None

StepOffsets(kind) ==
    IF kind = "N"
    THEN {d \in (-2 .. 2) \X (-2 .. 2) : d[1] * d[1] + d[2] * d[2] = 5}
    ELSE {d \in (-1 .. 1) \X (-1 .. 1) : d # <<0, 0>>}

StepTargets(G, r, c, color, kind) ==
    {sq \in Squares :
        /\ <<sq[1] - r, sq[2] - c>> \in StepOffsets(kind)
        /\ OpenOrEnemy(G, sq, color)}

\* C7: a Knight or King reaches exactly the in-range squares among its 8
\* offsets that are empty or enemy-occupied, each once; a lone Knight at
\* (0,0) has exactly 2 moves.
C7_StepMoves ==
    Generated =>
        /\ \A sq \in PiecesOf(Board, last.color) :
              KindAt(Board, sq) \in {"N", "K"} =>
                /\ Dests(last.moves, sq)
                     = StepTargets(Board, sq[1], sq[2], last.color, KindAt(Board, sq))
                /\ CountFrom(last.moves, sq) = Cardinality(Dests(last.moves, sq))
        /\ (AllPieces(Board) = {<<0, 0>>} /\ Board[0][0] = <<last.color, "N">>)
              => Len(last.moves) = 2

\* a Knight with an offset out of range, an offset on an own piece (neither
\* emitted) and an offset on an enemy piece (emitted)
C7_Witness ==
    /\ Generated
    /\ \E sq \in PiecesOf(Board, last.color) :
         /\ KindAt(Board, sq) = "N"
         /\ \E d \in StepOffsets("N") : <<sq[1] + d[1], sq[2] + d[2]>> \notin Squares
         /\ \E d \in StepOffsets("N") :
              <<sq[1] + d[1], sq[2] + d[2]>> \in PiecesOf(Board, last.color)
         /\ \E d \in StepOffsets("N") :
              /\ <<sq[1] + d[1], sq[2] + d[2]>> \in PiecesOf(Board, Other(last.color))
              /\ <<sq[1] + d[1], sq[2] + d[2]>> \in Dests(last.moves, sq)

SpecCount(G, color) == Cardinality(PiecesOf(G, color))

\* C10: on every board reached by applying generated moves (any promotion
\* kind but Pawn, or none) no Pawn stands on rank 0 or rank 7 and each colour
\* has at most 16 pieces; a move leaves the mover's piece count unchanged and
\* lowers the opponent's by at most one.
C10_NoEdgePawns ==
    /\ \A c \in ColIdx, r \in {0, 7} : Board[r][c] = None \/ Board[r][c][2] # "P"
    /\ \A color \in Colors : SpecCount(Board, color) <= 16
    /\ last.op = "apply" =>
          /\ SpecCount(Board, last.color) = last.counts[last.color]
          /\ SpecCount(Board, Other(last.color)) \in
                {last.counts[Other(last.color)] - 1, last.counts[Other(last.color)]}

\* a pawn has just captured onto its farthest rank and stands there as a
\* King, the kind the caller supplied
C10_Witness ==
    /\ last.op = "apply"
    /\ last.piece = <<last.color, "P">>
    /\ last.move[2][1] \in {0, 7}
    /\ Board[last.move[2][1]][last.move[2][2]] = <<last.color, "K">>
    /\ SpecCount(Board, Other(last.color)) = last.counts[Other(last.color)] - 1

----------------------------------------------------------------------------
(* The agent's contract *)

\* the board after a move as the spec describes it: the origin is emptied
\* and the destination holds the mover, a pawn on its farthest rank as Queen
SpecAfter(G, mv) ==
    LET piece == G[mv[1][1]][mv[1][2]]
        far   == IF piece[1] = "w" THEN 0 ELSE 7
        kind  == IF piece[2] = "P" /\ mv[2][1] = far THEN "Q" ELSE piece[2]
    IN  [r \in RowIdx |-> [c \in ColIdx |->
            IF <<r, c>> = mv[2] THEN <<piece[1], kind>>
            ELSE IF <<r, c>> = mv[1] THEN None
            ELSE G[r][c]]]

SpecValue(piece) ==
    IF piece = None THEN 0
    ELSE CASE piece[2] = "P" -> 1 [] piece[2] = "N" -> 3 [] piece[2] = "B" -> 3
           [] piece[2] = "R" -> 5 [] piece[2] = "Q" -> 9 [] piece[2] = "K" -> 0

RECURSIVE SpecSum(_, _, _)
SpecSum(G, color, sqs) ==
    IF sqs = {} THEN 0
    ELSE LET sq == CHOOSE x \in sqs : TRUE
         IN  (IF G[sq[1]][sq[2]][1] = color THEN SpecValue(G[sq[1]][sq[2]])
              ELSE 0 - SpecValue(G[sq[1]][sq[2]]))
             + SpecSum(G, color, sqs \ {sq})

SpecMaterial(G, color) == SpecSum(G, color, AllPieces(G))

\* ten times the evalScore of each candidate, paired with the candidate
SpecScored(G, color, cands) ==
    {<<10 * SpecMaterial(SpecAfter(G, m), color) + SpecValue(G[m[2][1]][m[2][2]]), m>> :
        m \in cands}

SpecTieBreak(G, scored) ==
    LET top       == CHOOSE p \in scored : \A q \in scored : q[1] <= p[1]
        maximal   == {p[2] : p \in {q \in scored : q[1] = top[1]}}
        capturing == {m \in maximal : G[m[2][1]][m[2][2]] # None}
    IN  IF capturing # {}
        THEN {m \in capturing :
                \A k \in capturing :
                    SpecValue(G[k[2][1]][k[2][2]]) <= SpecValue(G[m[2][1]][m[2][2]])}
        ELSE maximal

\* C1: the moves chooseMove can return are exactly the candidates of maximal
\* evalScore, narrowed to those capturing the highest-valued piece when any
\* of them captures; no candidate scores above the returned move.
C1_TieBreakSet ==
    (last.op = "choose" /\ last.moves # <<>>) =>
        \A scored \in {SpecScored(last.before, last.color, Range(last.moves))} :
            /\ Range(last.pool) = SpecTieBreak(last.before, scored)
            /\ last.move \in Range(last.pool)
            /\ \E p \in scored : p[2] = last.move /\ \A q \in scored : q[1] <= p[1]

\* the agent took a King (value 0) although quiet moves score the same
C1_Witness ==
    /\ last.op = "choose"
    /\ last.move # NoMove
    /\ last.before[last.move[2][1]][last.move[2][2]] # None
    /\ last.before[last.move[2][1]][last.move[2][2]][2] = "K"
    /\ \E scored \in {SpecScored(last.before, last.color, Range(last.moves))} :
         \E p \in scored, q \in scored :
            /\ p[2] = last.move
            /\ q[1] = p[1]
            /\ last.before[q[2][2][1]][q[2][2][2]] = None

\* C2: chooseMove returns None exactly when generateMoves is empty, and
\* otherwise an element of generateMoves for the same board and colour (the
\* only one when there is only one).
C2_ChosenIsGenerated ==
    last.op = "choose" =>
        /\ (last.move = NoMove) <=> (last.moves = <<>>)
        /\ last.move # NoMove => last.move \in Range(last.moves)
        /\ Len(last.moves) = 1 => last.move = last.moves[1]

\* a side that has a piece but no move: the agent returned None
C2_Witness ==
    /\ last.op = "choose"
    /\ last.move = NoMove
    /\ PiecesOf(last.before, last.color) # {}
    /\ View(heap, BOARD) = last.before

----------------------------------------------------------------------------
(* move_piece's contract *)

Moved == last.op = "move"

PromotionApplies(piece, dst) ==
    /\ piece[2] = "P"
    /\ dst[1] = (IF piece[1] = "w" THEN 0 ELSE 7)

OthersUnchanged ==
    \A sq \in Squares \ {last.src, last.dst} :
        Board[sq[1]][sq[2]] = last.before[sq[1]][sq[2]]

Relocated ==
    LET piece == last.before[last.src[1]][last.src[2]]
        now   == Board[last.dst[1]][last.dst[2]]
    IN  /\ Board[last.src[1]][last.src[2]] = None
        /\ IF piece = None THEN now = None
           ELSE /\ now # None
                /\ now[1] = piece[1]
                /\ ~PromotionApplies(piece, last.dst) => now = piece
        /\ OthersUnchanged

\* C3 as stated: whatever the origin and the destination held, the origin
\* ends empty, the destination holds what the origin held and every other
\* square is unchanged.
C3_Unconditional == Moved => Relocated

\* C3, amended: with a piece on the origin the move relocates it as stated;
\* with an empty origin the call changes no square (the destination keeps
\* its occupant).
C3_RelocatesPiece ==
    Moved => IF last.before[last.src[1]][last.src[2]] = None
             THEN Board = last.before
             ELSE Relocated

\* a piece moved onto an occupied square, whose occupant is overwritten
C3_Witness ==
    /\ Moved
    /\ last.before[last.src[1]][last.src[2]] # None
    /\ last.before[last.dst[1]][last.dst[2]] # None
    /\ Board[last.dst[1]][last.dst[2]] = last.before[last.src[1]][last.src[2]]
    /\ Board[last.dst[1]][last.dst[2]] # last.before[last.dst[1]][last.dst[2]]

\* C4: a Pawn moved onto the farthest rank of its colour is placed as the
\* supplied promotion kind, or as Queen when none is supplied; any other
\* moved piece keeps its kind, whatever promotion kind is supplied.
C4_Promotion ==
    (Moved /\ last.before[last.src[1]][last.src[2]] # None) =>
        LET piece == last.before[last.src[1]][last.src[2]]
        IN  Board[last.dst[1]][last.dst[2]] =
                IF PromotionApplies(piece, last.dst)
                THEN <<piece[1], IF last.promotion = NoPromotion THEN "Q" ELSE last.promotion>>
                ELSE piece

\* a Black pawn arrives on rank 0 with a promotion kind supplied and is
\* still a pawn
C4_Witness ==
    /\ Moved
    /\ last.before[last.src[1]][last.src[2]] = <<"b", "P">>
    /\ last.dst[1] = 0
    /\ last.promotion = "R"
    /\ Board[last.dst[1]][last.dst[2]] = <<"b", "P">>

----------------------------------------------------------------------------
(* clone isolation *)

\* C8: a clone shares no mutable state with its original: a set, an
\* applyMove or a reset on one Board leaves every square of every other Board
\* unchanged, a fresh clone shows the grid of its original, and
\* generateMoves and chooseMove return with every Board as it was on entry.
C8_CloneIsolation ==
    /\ last.op \in {"set", "move", "reset"} =>
          \A b \in DOMAIN last.before \ {last.target} : View(heap, b) = last.before[b]
    /\ last.op = "clone" =>
          /\ DOMAIN heap.grids = DOMAIN last.before \cup {last.target}
          /\ \A b \in DOMAIN last.before : View(heap, b) = last.before[b]
          /\ View(heap, last.target) = last.before[BOARD]
    /\ last.op \in {"generate", "choose"} => Views(heap) = last.before

\* a second mutation in a row: the clone has just been changed by a move
\* and differs from its original, which shows what it showed before
C8_Witness ==
    /\ last.op = "move"
    /\ n = 2
    /\ last.target # BOARD
    /\ View(heap, last.target) # last.before[last.target]
    /\ View(heap, BOARD) = last.before[BOARD]
    /\ View(heap, BOARD) # View(heap, last.target)

----------------------------------------------------------------------------
(* the game loop *)

Changed ==
    \/ Board # last.before
    \/ selected # last.selected
    \/ legal_moves_from_selected # last.listed
    \/ current_turn # last.turn

\* the moves generateMoves yields for color on grid G that start on sq
SpecListed(G, color, sq) ==
    {mv \in Range(generate_legal_moves(HeapOf(G), BOARD, color)) : mv[1] = sq}

\* C9: the board has a single writer, the turn owner.  Every change of the
\* board is the application of a move that generateMoves yields for the
\* side to move on the board as it was, and the turn flips with it; a click
\* changes nothing while it is the agent's turn, and then only the human's
\* pieces move, by a move of the stored list, which was computed on that
\* very board; a frame changes nothing unless it is the agent's turn, and
\* then only the agent's pieces move; a stored selection always carries the
\* moves of the current board.
C9_SingleWriter ==
    /\ Board # last.before =>
          /\ last.op \in {"click", "frame"}
          /\ \E mv \in Range(generate_legal_moves(HeapOf(last.before), BOARD, last.turn)) :
                /\ Board = SpecAfter(last.before, mv)
                /\ last.before[mv[1][1]][mv[1][2]][1] = last.turn
                /\ last.op = "click" =>
                      /\ mv \in Range(last.listed)
                      /\ Range(last.listed) = SpecListed(last.before, last.turn, last.selected)
          /\ current_turn = Other(last.turn)
          /\ last.op = "click" => last.turn # AI_COLOR
          /\ last.op = "frame" => last.turn = AI_COLOR
    /\ (last.op = "click" /\ last.turn = AI_COLOR) => ~Changed
    /\ (last.op = "frame" /\ last.turn # AI_COLOR) => ~Changed
    /\ last.op \in {"quit", "draw"} => ~Changed
    /\ selected # None =>
          /\ current_turn # AI_COLOR
          /\ Range(legal_moves_from_selected) = SpecListed(Board, current_turn, selected)

\* the human has captured with a stored move, on the third turn of the game
C9_Witness ==
    /\ last.op = "click"
    /\ n = 3
    /\ Board # last.before
    /\ last.selected # None
    /\ \E mv \in Range(last.listed) :
          /\ last.before[mv[2][1]][mv[2][2]] # None
          /\ Board = SpecAfter(last.before, mv)
    /\ current_turn = AI_COLOR
    /\ selected = None

====
